---- MODULE Spec2Model ----
(***************************************************************************)
(* Model of the hover resolution pass of vizia_core (systems/hover.rs):    *)
(* hover_system pops ZEntity work items from a BinaryHeap and hover_entity *)
(* walks the draw tree, deferring nodes with a higher z-index, hit-testing *)
(* the others and committing the last match as the hovered entity.         *)
(*                                                                         *)
(* Coordinates are integers (the source uses f32; only comparisons,        *)
(* additions and sign changes are modelled, all exact on the values used). *)
(* Sparse per-entity stores (style.abilities, style.z_index, ...) are      *)
(* functions whose DOMAIN is the set of entities that have an entry.       *)
(*                                                                         *)
(* The second half models vizia_storage: the iterators of                  *)
(* tree/iter/tree_iter.rs (IterSpec) and the Tree and the generational ids *)
(* they run on (TreeSpec).                                                 *)
(***************************************************************************)
EXTENDS Integers, Sequences, FiniteSets, TLC

VARIABLES
    children,            \* tree: entity -> sequence of its children, in sibling order
    style,               \* read-only style stores: abilities, display, text_span,
                         \*   pointer_events, z_index, cursor, transform, clip_region
    cache,               \* cache bounds: entity -> BoundingBox
    pseudo_classes,      \* style.pseudo_classes: sparse entity -> set of flags
    mouse,               \* cx.mouse: [cursor_x, cursor_y]
    hovered,             \* cx.hovered
    cursor_icon_locked,  \* cx.cursor_icon_locked
    event_queue,         \* cx.event_queue
    restyle,             \* entities marked by style.needs_restyle
    panicked,            \* TRUE once a pass has panicked (Option::unwrap on None)
    last,                \* record of the most recent call of hover_system
    budget,              \* calls of hover_system still to be explored
    tree,                \* Tree: NodeId -> its links (parent, first_child, ...)
    arena,               \* id arena: generation of every slot and the free-list
    issued,              \* every NodeId the arena has handed out so far
    result,              \* record of the most recent Tree or arena operation
    iter,                \* a TreeIterator: its tours and what the two ends yielded
    bfs                  \* a TreeBreadthIterator: its queue and what it yielded

vars == <<children, style, cache, pseudo_classes, mouse, hovered,
          cursor_icon_locked, event_queue, restyle, panicked, last, budget>>

tree_vars == <<tree, arena, issued, result, iter, bfs>>

all_vars == <<vars, tree_vars>>

----------------------------------------------------------------------------
(* Bounds of the model *)

\* Passes of hover_system explored on the scenes of InitDeep
MaxPasses == 2

\* Passes of hover_system explored on the other, more numerous scenes
WidePasses == 1

\* Stand-in for f32::MAX / 2.0, larger than every coordinate of the model.
HalfMax == 1000000

Root == 0
NoEntity == -1

Entities == DOMAIN children

----------------------------------------------------------------------------
(* Sparse stores: Option-returning get with unwrap_or(default) *)

Has(store, e) == e \in DOMAIN store

GetOr(store, e, default) == IF e \in DOMAIN store THEN store[e] ELSE default

\* The sparse store holding f[e] for the entities where f[e] differs from unset.
Sparse(f, unset) == [e \in {x \in DOMAIN f : f[x] # unset} |-> f[e]]

----------------------------------------------------------------------------
(* BoundingBox *)

BoundingBox(x, y, w, h) == [x |-> x, y |-> y, w |-> w, h |-> h]

Left(b) == b.x
Right(b) == b.x + b.w
Top(b) == b.y
Bottom(b) == b.y + b.h

Max2(a, b) == IF a >= b THEN a ELSE b
Min2(a, b) == IF a <= b THEN a ELSE b

FromMinMax(l, t, r, b) == BoundingBox(l, t, r - l, b - t)

Intersection(a, b) ==
    FromMinMax(Max2(Left(a), Left(b)), Max2(Top(a), Top(b)),
               Min2(Right(a), Right(b)), Min2(Bottom(a), Bottom(b)))

\* clip_bounds of hover_system: x = y = -f32::MAX / 2, w = h = f32::MAX
InitialClip == BoundingBox(-HalfMax, -HalfMax, 2 * HalfMax, 2 * HalfMax)

----------------------------------------------------------------------------
(* Matrix: the affine maps p |-> s * p + (dx, dy) with s in {-1, 0, 1} *)

Matrix(s, dx, dy) == [s |-> s, dx |-> dx, dy |-> dy]

Identity == Matrix(1, 0, 0)

\* a * b: apply b, then a
Concat(a, b) == Matrix(a.s * b.s, a.s * b.dx + a.dx, a.s * b.dy + a.dy)

Invertible(m) == m.s # 0

\* Matrix::invert of an invertible matrix (s * s = 1)
Invert(m) == Matrix(m.s, -(m.s * m.dx), -(m.s * m.dy))

MapPoint(m, x, y) == [x |-> m.s * x + m.dx, y |-> m.s * y + m.dy]

----------------------------------------------------------------------------
(* ZEntity and the BinaryHeap<ZEntity> work queue *)

ZEntity(index, pointer_events, entity) ==
    [index |-> index, pointer_events |-> pointer_events, entity |-> entity]

\* mutant: self.index.cmp(&other.index), the comparison not reversed
ZCmpForward(a, b) ==
    IF a.index < b.index THEN -1 ELSE IF a.index = b.index THEN 0 ELSE 1

\* impl Ord for ZEntity: other.index.cmp(&self.index), with
\* Ordering::Less / Equal / Greater as -1 / 0 / 1
ZCmp(a, b) ==
    IF b.index < a.index THEN -1 ELSE IF b.index = a.index THEN 0 ELSE 1

\* a <= b through PartialOrd
ZLe(a, b) == ZCmp(a, b) <= 0

Swap(data, i, j) == [data EXCEPT ![i] = data[j], ![j] = data[i]]

\* BinaryHeap::sift_up(start, pos), positions 1-based: parent of pos is pos \div 2
RECURSIVE SiftUp(_, _, _)
SiftUp(data, start, pos) ==
    IF pos > start
    THEN LET parent == pos \div 2 IN
         IF ZLe(data[pos], data[parent])
         THEN data
         ELSE SiftUp(Swap(data, pos, parent), start, parent)
    ELSE data

\* BinaryHeap::sift_down_to_bottom: move the hole down to a leaf, always
\* towards the greater child (the right one on a tie); returns <<data, pos>>
RECURSIVE SiftDownToBottom(_, _)
SiftDownToBottom(data, pos) ==
    LET end == Len(data)
        child == 2 * pos
    IN  IF child + 1 <= end
        THEN LET c == IF ZLe(data[child], data[child + 1]) THEN child + 1 ELSE child
             IN  SiftDownToBottom(Swap(data, pos, c), c)
        ELSE IF child = end
             THEN <<Swap(data, pos, child), child>>
             ELSE <<data, pos>>

HeapPush(data, item) == SiftUp(Append(data, item), 1, Len(data) + 1)

\* BinaryHeap::pop on a non-empty heap: [item, data]
HeapPop(data) ==
    LET n == Len(data)
        lastItem == data[n]
        rest == SubSeq(data, 1, n - 1)
    IN  IF n = 1
        THEN [item |-> lastItem, data |-> <<>>]
        ELSE LET swapped == [rest EXCEPT ![1] = lastItem]
                 down == SiftDownToBottom(swapped, 1)
             IN  [item |-> data[1], data |-> SiftUp(down[1], 1, down[2])]

----------------------------------------------------------------------------
(* Style and tree reads of hover_entity *)

OVER == "over"
HOVER == "hover"
HOVERABLE == "hoverable"
CHECKABLE == "checkable"

\* mutant: unwrap_or(false)
HoverableUnlessAbsent(e) ==
    IF Has(style.abilities, e) THEN HOVERABLE \in style.abilities[e] ELSE FALSE

\* style.abilities.get(e).map(|a| a.contains(HOVERABLE)).unwrap_or(true)
Hoverable(e) ==
    IF Has(style.abilities, e) THEN HOVERABLE \in style.abilities[e] ELSE TRUE

\* display == Display::None && !text_span
NotDisplayed(e) ==
    /\ GetOr(style.display, e, "Flex") = "None"
    /\ ~GetOr(style.text_span, e, FALSE)

\* mutant: an entity without a value of its own does not inherit
PointerEventsNotInherited(e, parent_pointer_events) ==
    IF Has(style.pointer_events, e)
    THEN style.pointer_events[e] = "Auto"
    ELSE TRUE

\* explicit pointer-events value, else the parent's resolved value
PointerEvents(e, parent_pointer_events) ==
    IF Has(style.pointer_events, e)
    THEN style.pointer_events[e] = "Auto"
    ELSE parent_pointer_events

\* style.z_index.get(e).copied().unwrap_or_default()
ZIndex(e) == GetOr(style.z_index, e, 0)

\* mutant: no node is ever deferred (plain tree order)
DeferredNever(z_index, current_z) == FALSE

\* z_index > current_z: the node is pushed instead of visited
Deferred(z_index, current_z) == z_index > current_z

\* mutant: the y coordinate is not looked at
CursorOutsideXOnly == mouse.cursor_x < 0

\* cursor_x < 0.0 || cursor_y < 0.0
CursorOutside == mouse.cursor_x < 0 \/ mouse.cursor_y < 0

\* mutant: closed intervals
InsideClosed(tx, ty, b) ==
    /\ tx >= Left(b) /\ tx <= Right(b)
    /\ ty >= Top(b) /\ ty <= Bottom(b)

\* tx >= b.left() && tx < b.right() && ty >= b.top() && ty < b.bottom()
Inside(tx, ty, b) ==
    /\ tx >= Left(b) /\ tx < Right(b)
    /\ ty >= Top(b) /\ ty < Bottom(b)

\* cx.transform(), cx.clip_region(), cx.bounds() of the current entity
OwnTransform(e) == GetOr(style.transform, e, Identity)
ClipRegion(e) == GetOr(style.clip_region, e, InitialClip)
Bounds(e) == cache[e]

\* DrawChildIterator::new(tree, e): the children of e in sibling order
DrawChildren(e) == children[e]

SetFlag(flags, e, flag, on) ==
    IF Has(flags, e)
    THEN [flags EXCEPT ![e] = IF on THEN @ \cup {flag} ELSE @ \ {flag}]
    ELSE flags

Contains(flags, e, flag) == flag \in GetOr(flags, e, {})

----------------------------------------------------------------------------
(* hover_entity.  The state threaded through the walk of one pass:         *)
(*   queue    the BinaryHeap of hover_system                               *)
(*   hovered  the local accumulator of hover_system                        *)
(*   pseudo   style.pseudo_classes                                         *)
(*   restyle  entities marked by needs_restyle                             *)
(*   panic    TRUE once transform.invert().unwrap() has panicked           *)
(*   log      what the walk did, in order (history, not program state)     *)

NoPoint == [x |-> 0, y |-> 0]
NoBox == BoundingBox(0, 0, 0, 0)

Entry(op, e, z, pe, matched, t, b) ==
    [op |-> op, entity |-> e, z |-> z, pe |-> pe, matched |-> matched,
     t |-> t, b |-> b]

Log(w, op, e, z, pe, matched) ==
    [w EXCEPT !.log = Append(@, Entry(op, e, z, pe, matched, NoPoint, NoBox))]

LogTest(w, e, z, pe, matched, tx, ty, b) ==
    [w EXCEPT !.log = Append(@, Entry("test", e, z, pe, matched,
                                      [x |-> tx, y |-> ty], b))]

\* mutant: the first match of the walk is kept instead of the last
HitTestFirstWins(w, e, current_z, pointer_events, tx, ty, b) ==
    IF pointer_events /\ Inside(tx, ty, b)
    THEN [LogTest(w, e, current_z, pointer_events, TRUE, tx, ty, b) EXCEPT
             !.hovered = IF \E k \in 1..Len(w.log) : w.log[k].matched THEN @ ELSE e]
    ELSE LogTest(w, e, current_z, pointer_events, FALSE, tx, ty, b)

\* mutant: every node that is hit-tested becomes the hovered one
HitTestAlwaysHovered(w, e, current_z, pointer_events, tx, ty, b) ==
    [LogTest(w, e, current_z, pointer_events,
             pointer_events /\ Inside(tx, ty, b), tx, ty, b) EXCEPT !.hovered = e]

\* lines 161-193: the hit test of a visited node and its OVER flag
HitTest(w, e, current_z, pointer_events, tx, ty, b) ==
    IF pointer_events
    THEN IF Inside(tx, ty, b)
         THEN LET set == ~Contains(w.pseudo, e, OVER) /\ Has(w.pseudo, e) IN
              [LogTest(w, e, current_z, pointer_events, TRUE, tx, ty, b) EXCEPT
                  !.hovered = e,
                  !.pseudo = IF set THEN SetFlag(@, e, OVER, TRUE) ELSE @,
                  !.restyle = IF set THEN @ \cup {e} ELSE @]
         ELSE LET clear == Contains(w.pseudo, e, OVER) IN
              [LogTest(w, e, current_z, pointer_events, FALSE, tx, ty, b) EXCEPT
                  !.pseudo = IF clear THEN SetFlag(@, e, OVER, FALSE) ELSE @,
                  !.restyle = IF clear THEN @ \cup {e} ELSE @]
    ELSE LogTest(w, e, current_z, pointer_events, FALSE, tx, ty, b)

RECURSIVE HoverEntity(_, _, _, _, _, _)
RECURSIVE HoverChildren(_, _, _, _, _, _)

HoverEntity(w, e, current_z, parent_pointer_events, parent_transform, clip_bounds) ==
    IF w.panic THEN w
    ELSE IF ~Hoverable(e) THEN Log(w, "skip", e, current_z, FALSE, FALSE)
    ELSE IF NotDisplayed(e) THEN Log(w, "skip", e, current_z, FALSE, FALSE)
    ELSE
    LET pointer_events == PointerEvents(e, parent_pointer_events)
        z_index == ZIndex(e)
    IN
    IF Deferred(z_index, current_z)
    THEN [Log(w, "push", e, z_index, pointer_events, FALSE) EXCEPT
             !.queue = HeapPush(@, ZEntity(z_index, pointer_events, e))]
    ELSE IF CursorOutside THEN Log(w, "outside", e, current_z, pointer_events, FALSE)
    ELSE
    LET transform == Concat(OwnTransform(e), parent_transform) IN
    IF ~Invertible(transform)
    THEN [Log(w, "panic", e, current_z, pointer_events, FALSE) EXCEPT !.panic = TRUE]
    ELSE
    LET t == MapPoint(Invert(transform), mouse.cursor_x, mouse.cursor_y)
        clipping == Intersection(clip_bounds, ClipRegion(e))
        b == Intersection(Bounds(e), clipping)
        w1 == [w EXCEPT !.pseudo = SetFlag(@, e, HOVER, FALSE)]
        w2 == HitTest(w1, e, current_z, pointer_events, t.x, t.y, b)
    IN  HoverChildren(w2, DrawChildren(e), current_z, pointer_events, transform, clipping)

\* for child in child_iter { hover_entity(cx, current_z, pointer_events, ...) }
HoverChildren(w, kids, current_z, pointer_events, transform, clipping) ==
    IF kids = <<>> THEN w
    ELSE HoverChildren(
            HoverEntity(w, Head(kids), current_z, pointer_events, transform, clipping),
            Tail(kids), current_z, pointer_events, transform, clipping)

\* while !queue.is_empty() { let zentity = queue.pop().unwrap(); hover_entity(...) }
RECURSIVE DrainQueue(_)
DrainQueue(w) ==
    IF w.panic \/ w.queue = <<>> THEN w
    ELSE LET popped == HeapPop(w.queue)
             zentity == popped.item
             w1 == [Log(w, "pop", zentity.entity, zentity.index,
                        zentity.pointer_events, FALSE)
                       EXCEPT !.queue = popped.data]
         IN  DrainQueue(HoverEntity(w1, zentity.entity, zentity.index,
                                    zentity.pointer_events, Identity, InitialClip))

----------------------------------------------------------------------------
(* hover_system *)

\* tree.get_layout_parent(e): NoEntity for the root
LayoutParent(e) ==
    IF \E p \in Entities : \E i \in 1..Len(children[p]) : children[p][i] = e
    THEN CHOOSE p \in Entities : \E i \in 1..Len(children[p]) : children[p][i] = e
    ELSE NoEntity

\* LayoutParentIterator::new(tree, e): e, then its layout ancestors up to the root
RECURSIVE LayoutParentIterator(_)
LayoutParentIterator(e) ==
    IF e = NoEntity THEN <<>> ELSE <<e>> \o LayoutParentIterator(LayoutParent(e))

\* mutant: HOVER for the hovered entity and all its ancestors
RECURSIVE SetHoverStateAlways(_, _)
SetHoverStateAlways(flags, chain) ==
    IF chain = <<>> THEN flags
    ELSE SetHoverStateAlways(SetFlag(flags, Head(chain), HOVER, TRUE), Tail(chain))

\* lines 42-52: HOVER for the hovered entity and the ancestors that carry OVER
RECURSIVE SetHoverState(_, _)
SetHoverState(flags, chain) ==
    IF chain = <<>> THEN flags
    ELSE LET ancestor == Head(chain)
             set == Contains(flags, ancestor, OVER) /\ ~Contains(flags, ancestor, HOVER)
         IN  SetHoverState(IF set THEN SetFlag(flags, ancestor, HOVER, TRUE) ELSE flags,
                           Tail(chain))

Event(kind, mode, target, cursor) ==
    [kind |-> kind, mode |-> mode, target |-> target, cursor |-> cursor]

\* mutant: the lock is not looked at
CursorRequestIgnoringLock(window_entity, new) ==
    <<Event("SetCursor", "up", window_entity, GetOr(style.cursor, new, "Default"))>>

\* cx.emit(WindowEvent::SetCursor(cursor)) unless the cursor icon is locked
CursorRequest(window_entity, new) ==
    IF cursor_icon_locked THEN <<>>
    ELSE <<Event("SetCursor", "up", window_entity, GetOr(style.cursor, new, "Default"))>>

\* mutant: the leave event goes to the new entity and the enter event to the old
TransitionEventsSwapped(old, new) ==
    << Event("MouseEnter", "direct", old, ""),
       Event("MouseLeave", "direct", new, ""),
       Event("MouseOver", "up", new, ""),
       Event("MouseOut", "up", old, "") >>

\* lines 73-79: the four transition events, in the order they are pushed
TransitionEvents(old, new) ==
    << Event("MouseEnter", "direct", new, ""),
       Event("MouseLeave", "direct", old, ""),
       Event("MouseOver", "up", new, ""),
       Event("MouseOut", "up", old, "") >>

\* mutant: the transition is emitted on every pass
HoverChangedAlways(new, old) == TRUE

\* line 54: hovered != cx.hovered
HoverChanged(new, old) == new # old

\* mutant: the pass never returns early
WindowNotOverIgnored(window_entity) == FALSE

\* lines 12-16: the window has a pseudo-class entry without OVER
WindowNotOver(window_entity) ==
    Has(pseudo_classes, window_entity) /\ OVER \notin pseudo_classes[window_entity]

\* lines 18-40: the walk of one pass
Walk(window_entity) ==
    LET pointer_events == GetOr(style.pointer_events, window_entity, "Auto") = "Auto"
    IN  DrainQueue([queue   |-> HeapPush(<<>>, ZEntity(0, pointer_events, window_entity)),
                    hovered |-> window_entity,
                    pseudo  |-> pseudo_classes,
                    restyle |-> restyle,
                    panic   |-> FALSE,
                    log     |-> <<>>])

Last(window_entity, outcome, resolved, log) ==
    [window |-> window_entity, outcome |-> outcome, resolved |-> resolved, log |-> log,
     prev_hovered |-> hovered, prev_events |-> Len(event_queue),
     prev_restyle |-> restyle, prev_pseudo |-> pseudo_classes,
     locked |-> cursor_icon_locked, mouse |-> mouse]

HoverSystem(window_entity) ==
    /\ ~panicked
    /\ budget > 0
    /\ budget' = budget - 1
    /\ UNCHANGED <<children, style, cache, mouse, cursor_icon_locked, tree_vars>>
    /\ IF WindowNotOver(window_entity)
       THEN /\ last' = Last(window_entity, "return", NoEntity, <<>>)
            /\ UNCHANGED <<pseudo_classes, hovered, event_queue, restyle, panicked>>
       ELSE LET w == Walk(window_entity) IN
            IF w.panic
            THEN /\ panicked' = TRUE
                 /\ pseudo_classes' = w.pseudo
                 /\ restyle' = w.restyle
                 /\ last' = Last(window_entity, "panic", NoEntity, w.log)
                 /\ UNCHANGED <<hovered, event_queue>>
            ELSE /\ pseudo_classes' = SetHoverState(w.pseudo, LayoutParentIterator(w.hovered))
                 /\ last' = Last(window_entity, "done", w.hovered, w.log)
                 /\ UNCHANGED panicked
                 /\ IF HoverChanged(w.hovered, hovered)
                    THEN /\ event_queue' = event_queue
                                \o CursorRequest(window_entity, w.hovered)
                                \o TransitionEvents(hovered, w.hovered)
                         /\ restyle' = w.restyle \cup {hovered, w.hovered}
                         /\ hovered' = w.hovered
                    ELSE /\ restyle' = w.restyle
                         /\ UNCHANGED <<hovered, event_queue>>

----------------------------------------------------------------------------
(* Environment: the collaborators that write what the pass reads *)

CursorPositions ==
    { [cursor_x |-> x, cursor_y |-> 50] : x \in {-1, 50, 100, 200} }
    \cup { [cursor_x |-> 50, cursor_y |-> -1] }

\* cx.mouse.cursor_x / cursor_y are written by the window's cursor-moved handler
MouseMove(pos) ==
    /\ ~panicked
    /\ budget > 0
    /\ pos # mouse
    /\ mouse' = pos
    /\ UNCHANGED <<children, style, cache, pseudo_classes, hovered,
                   cursor_icon_locked, event_queue, restyle, panicked, last, budget,
                   tree_vars>>

----------------------------------------------------------------------------
(* Scenes: the trees and attribute assignments the passes run on *)

RECURSIVE SortedSeq(_)
SortedSeq(S) ==
    IF S = {} THEN <<>>
    ELSE LET m == CHOOSE x \in S : \A y \in S : x <= y
         IN  <<m>> \o SortedSeq(S \ {m})

\* Parent vectors of the trees on 0..n rooted at 0 (the parent of i is below i)
ParentVectors(n) == { p \in [1..n -> 0..(n - 1)] : \A i \in 1..n : p[i] < i }

ChildrenOf(n, p) == [e \in 0..n |-> SortedSeq({ i \in 1..n : p[i] = e })]

FullBox == BoundingBox(0, 0, 200, 100)
LeftBox == BoundingBox(0, 0, 100, 100)
RightBox == BoundingBox(100, 0, 100, 100)
TopBox == BoundingBox(0, 0, 200, 50)
BottomBox == BoundingBox(0, 50, 200, 50)

Translate == Matrix(1, 100, 0)
Singular == Matrix(0, 0, 0)

DefaultStyle ==
    [abilities |-> <<>>, display |-> <<>>, text_span |-> <<>>, pointer_events |-> <<>>,
     z_index |-> <<>>, cursor |-> <<>>, transform |-> <<>>, clip_region |-> <<>>]

\* Every entity built by the toolkit has a pseudo-class entry; the window is OVER
BuiltPseudoClasses(n) == [e \in 0..n |-> IF e = Root THEN {OVER} ELSE {}]

\* The sparse store with the single entry e |-> v (empty when e is NoEntity)
Single(e, v) == [x \in {e} \ {NoEntity} |-> v]

InitWith(kids, st, bounds, pseudo, locked, n) ==
    /\ children = kids
    /\ style = st
    /\ cache = bounds
    /\ pseudo_classes = pseudo
    /\ mouse = [cursor_x |-> 50, cursor_y |-> 50]
    /\ hovered = Root
    /\ cursor_icon_locked = locked
    /\ event_queue = <<>>
    /\ restyle = {}
    /\ panicked = FALSE
    /\ last = [window |-> NoEntity, outcome |-> "none", resolved |-> NoEntity,
               log |-> <<>>, prev_hovered |-> Root, prev_events |-> 0,
               prev_restyle |-> {}, prev_pseudo |-> pseudo, locked |-> locked,
               mouse |-> [cursor_x |-> 50, cursor_y |-> 50]]
    /\ budget = n

\* z-order scenes: every tree on five entities with z-indices 0 and 5, and
\* every tree on four entities with z-indices 0, 5 and 7
InitZ ==
    \/ \E p \in ParentVectors(4) : \E z \in [1..4 -> {0, 5}] :
           InitWith(ChildrenOf(4, p), [DefaultStyle EXCEPT !.z_index = Sparse(z, 0)],
                    [e \in 0..4 |-> FullBox], BuiltPseudoClasses(4), FALSE, WidePasses)
    \/ \E p \in ParentVectors(3) : \E z \in [1..3 -> {0, 5, 7}] :
           InitWith(ChildrenOf(3, p), [DefaultStyle EXCEPT !.z_index = Sparse(z, 0)],
                    [e \in 0..3 |-> FullBox], BuiltPseudoClasses(3), FALSE, WidePasses)

\* The chain 0-1-2-3 and the tree 0 -> {1, 2}, 1 -> {3}
PolicyShapes == { <<0, 1, 2>>, <<0, 0, 1>> }

\* pointer-events scenes: every assignment of unset / Auto / None, with at most
\* one entity (the window included) raised to z-index 5
InitPointerEvents ==
    \E p \in PolicyShapes : \E pe \in [0..3 -> {"unset", "Auto", "None"}] :
    \E raised \in {NoEntity} \cup 0..3 :
        InitWith(ChildrenOf(3, p),
                 [DefaultStyle EXCEPT !.pointer_events = Sparse(pe, "unset"),
                                      !.z_index = Single(raised, 5)],
                 [e \in 0..3 |-> FullBox], BuiltPseudoClasses(3), FALSE, WidePasses)

AbilityKinds == {"default", "hoverable", "checkable", "none", "span"}

\* ability / display scenes: at most two entities carry an abilities entry
\* (with or without HOVERABLE) or display: none (with or without text-span),
\* and at most one of the two deepest entities is raised to z-index 5
InitAbilities ==
    \E p \in PolicyShapes : \E kind \in [0..3 -> AbilityKinds] :
    \E raised \in {NoEntity, 2, 3} :
        /\ Cardinality({e \in 0..3 : kind[e] # "default"}) <= 2
        /\ InitWith(ChildrenOf(3, p),
                 [DefaultStyle EXCEPT
                    !.abilities = [e \in {x \in 0..3 : kind[x] \in {"hoverable", "checkable"}}
                                     |-> IF kind[e] = "hoverable"
                                         THEN {HOVERABLE, CHECKABLE} ELSE {CHECKABLE}],
                    !.display = [e \in {x \in 0..3 : kind[x] \in {"none", "span"}} |-> "None"],
                    !.text_span = [e \in {x \in 0..3 : kind[x] = "span"} |-> TRUE],
                    !.z_index = Single(raised, 5)],
                 [e \in 0..3 |-> FullBox], BuiltPseudoClasses(3), FALSE, WidePasses)

GeometryShapes == { <<0, 0>>, <<0, 1>> }

\* what one entity of a geometry scene may carry besides its bounds
Modifiers ==
    { [on |-> NoEntity, clip |-> FullBox, transform |-> Identity] }
    \cup { [on |-> e, clip |-> c, transform |-> Identity] :
             e \in 0..2, c \in {LeftBox} }
    \cup { [on |-> e, clip |-> FullBox, transform |-> t] :
             e \in 0..2, t \in {Translate, Singular} }

\* geometry scenes: two entities under the window with bounds that tile or
\* overlap, one clip region or transform, and at most one entity at z-index 5
InitGeometry ==
    \E p \in GeometryShapes :
    \E b \in [1..2 -> {LeftBox, RightBox, TopBox, BottomBox}] :
    \E m \in Modifiers : \E raised \in {NoEntity, 1, 2} :
        InitWith(ChildrenOf(2, p),
                 [DefaultStyle EXCEPT
                    !.clip_region = IF m.transform = Identity
                                    THEN Single(m.on, m.clip) ELSE <<>>,
                    !.transform = IF m.transform = Identity
                                  THEN <<>> ELSE Single(m.on, m.transform),
                    !.z_index = Single(raised, 5)],
                 [e \in 0..2 |-> IF e = Root THEN FullBox ELSE b[e]],
                 BuiltPseudoClasses(2), FALSE, WidePasses)

\* pseudo-class stores of the deep scenes: as built, without any entry, and
\* as built but with the window not OVER
PseudoVariants ==
    { BuiltPseudoClasses(2), <<>>, [e \in 0..2 |-> {}] }

\* deep scenes: small trees followed over several passes, with the cursor
\* icon locked or not and a declared cursor on one entity
InitDeep ==
    \E p \in GeometryShapes : \E b \in [1..2 -> {LeftBox, RightBox}] :
    \E pseudo \in PseudoVariants : \E locked \in BOOLEAN : \E raised \in {NoEntity, 2} :
        InitWith(ChildrenOf(2, p),
                 [DefaultStyle EXCEPT !.z_index = Single(raised, 5),
                                      !.cursor = Single(1, "Hand")],
                 [e \in 0..2 |-> IF e = Root THEN FullBox ELSE b[e]],
                 pseudo, locked, MaxPasses)

----------------------------------------------------------------------------
(* vizia_storage: the generational ids, the Tree and its tours.  The       *)
(* iterators of tree/iter/tree_iter.rs are translated from the source; the *)
(* Tree, the id arena and DoubleEndedTreeTour they rest on are written     *)
(* from their description.                                                 *)

\* (index, generation)
NodeId(index, generation) == [index |-> index, generation |-> generation]

\* Option::None of a NodeId
None == NodeId(NoEntity, 0)

\* I::root(): the reserved root id
RootId == NodeId(Root, 0)

NoLinks == [parent |-> None, first_child |-> None,
            next_sibling |-> None, prev_sibling |-> None, z_order |-> 0]

\* Tree::new(): the root alone
TreeNew == [id \in {RootId} |-> NoLinks]

Present(t, id) == id \in DOMAIN t

\* the link queries; None for a node that is not in the tree
GetParent(t, id) == IF Present(t, id) THEN t[id].parent ELSE None
GetFirstChild(t, id) == IF Present(t, id) THEN t[id].first_child ELSE None
GetNextSibling(t, id) == IF Present(t, id) THEN t[id].next_sibling ELSE None
GetPrevSibling(t, id) == IF Present(t, id) THEN t[id].prev_sibling ELSE None

RECURSIVE LastOfChain(_, _)
LastOfChain(t, id) ==
    IF GetNextSibling(t, id) = None THEN id ELSE LastOfChain(t, GetNextSibling(t, id))

GetLastChild(t, id) ==
    IF GetFirstChild(t, id) = None THEN None ELSE LastOfChain(t, GetFirstChild(t, id))

\* the children of a node, following next_sibling from first_child
RECURSIVE ChainFrom(_, _)
ChainFrom(t, id) ==
    IF id = None THEN <<>> ELSE <<id>> \o ChainFrom(t, GetNextSibling(t, id))

ChildIterator(t, id) == ChainFrom(t, GetFirstChild(t, id))

RECURSIVE DescendantsOf(_, _)
DescendantsOf(t, id) ==
    LET kids == ChildIterator(t, id)
    IN  UNION { {kids[i]} \cup DescendantsOf(t, kids[i]) : i \in 1..Len(kids) }

\* mutant: the new node gets no link back to the sibling before it
AddWithoutPrevSibling(t, id, parent) ==
    IF Present(t, id) THEN [result |-> "AlreadyExists", tree |-> t]
    ELSE IF ~Present(t, parent) THEN [result |-> "ParentNotFound", tree |-> t]
    ELSE LET tail == GetLastChild(t, parent)
             linked == [n \in DOMAIN t \cup {id} |->
                          IF n = id THEN [NoLinks EXCEPT !.parent = parent]
                          ELSE IF n = parent /\ tail = None
                          THEN [t[n] EXCEPT !.first_child = id]
                          ELSE IF n = tail THEN [t[n] EXCEPT !.next_sibling = id]
                          ELSE t[n]]
         IN  [result |-> "Ok", tree |-> linked]

\* mutant: the new node is linked in as the first child
AddAsFirstChild(t, id, parent) ==
    IF Present(t, id) THEN [result |-> "AlreadyExists", tree |-> t]
    ELSE IF ~Present(t, parent) THEN [result |-> "ParentNotFound", tree |-> t]
    ELSE LET first == GetFirstChild(t, parent)
             linked == [n \in DOMAIN t \cup {id} |->
                          IF n = id
                          THEN [NoLinks EXCEPT !.parent = parent, !.next_sibling = first]
                          ELSE IF n = parent THEN [t[n] EXCEPT !.first_child = id]
                          ELSE IF n = first THEN [t[n] EXCEPT !.prev_sibling = id]
                          ELSE t[n]]
         IN  [result |-> "Ok", tree |-> linked]

\* Tree::add(id, parent): appends id as the last child of parent
Add(t, id, parent) ==
    IF Present(t, id) THEN [result |-> "AlreadyExists", tree |-> t]
    ELSE IF ~Present(t, parent) THEN [result |-> "ParentNotFound", tree |-> t]
    ELSE LET tail == GetLastChild(t, parent)
             linked == [n \in DOMAIN t \cup {id} |->
                          IF n = id
                          THEN [NoLinks EXCEPT !.parent = parent, !.prev_sibling = tail]
                          ELSE IF n = parent /\ tail = None
                          THEN [t[n] EXCEPT !.first_child = id]
                          ELSE IF n = tail THEN [t[n] EXCEPT !.next_sibling = id]
                          ELSE t[n]]
         IN  [result |-> "Ok", tree |-> linked]

\* mutant: the entries are dropped but the sibling chain is left as it was
RemoveWithoutDetach(t, id) ==
    IF ~Present(t, id) THEN [result |-> "NotFound", tree |-> t]
    ELSE [result |-> "Ok",
          tree |-> [n \in DOMAIN t \ ({id} \cup DescendantsOf(t, id)) |-> t[n]]]

\* Tree::remove(id): detaches the subtree rooted at id from the sibling chain
\* of its parent; id and its descendants are no longer in the tree
Remove(t, id) ==
    IF ~Present(t, id) THEN [result |-> "NotFound", tree |-> t]
    ELSE LET gone == {id} \cup DescendantsOf(t, id)
             prev == t[id].prev_sibling
             next == t[id].next_sibling
             unlinked == [n \in DOMAIN t \ gone |->
                            IF n = prev THEN [t[n] EXCEPT !.next_sibling = next]
                            ELSE IF n = next THEN [t[n] EXCEPT !.prev_sibling = prev]
                            ELSE IF n = t[id].parent /\ prev = None
                            THEN [t[n] EXCEPT !.first_child = next]
                            ELSE t[n]]
         IN  [result |-> "Ok", tree |-> unlinked]

\* Tree::set_z_order(id, value): writes the z-order of a node of the tree and
\* leaves the links alone
SetZOrder(t, id, value) ==
    IF Present(t, id) THEN [t EXCEPT ![id].z_order = value] ELSE t

\* The id arena: the generation of every slot (slot i is generation[i]) and
\* the free-list of the slots that can be handed out again
ArenaNew == [generation |-> <<>>, free_list |-> <<>>]

Range(seq) == { seq[i] : i \in 1..Len(seq) }

\* an id is live when it is the root, or its slot is in use at its generation
IsLive(a, id) ==
    \/ id = RootId
    \/ /\ id.index \in 1..Len(a.generation)
       /\ a.generation[id.index] = id.generation
       /\ id.index \notin Range(a.free_list)

\* allocation: a slot of the free-list at its current generation, or a new slot
Create(a) ==
    IF a.free_list # <<>>
    THEN [id |-> NodeId(Head(a.free_list), a.generation[Head(a.free_list)]),
          arena |-> [a EXCEPT !.free_list = Tail(a.free_list)]]
    ELSE [id |-> NodeId(Len(a.generation) + 1, 0),
          arena |-> [a EXCEPT !.generation = Append(a.generation, 0)]]

\* mutant: the slot goes back to the free-list at the same generation
DestroyKeepsGeneration(a, id) ==
    IF IsLive(a, id) /\ id # RootId
    THEN [a EXCEPT !.free_list = Append(a.free_list, id.index)]
    ELSE a

\* deletion: the generation of the slot is bumped and the slot goes back to
\* the free-list
Destroy(a, id) ==
    IF IsLive(a, id) /\ id # RootId
    THEN [a EXCEPT !.generation[id.index] = a.generation[id.index] + 1,
                   !.free_list = Append(a.free_list, id.index)]
    ELSE a

\* a read through an id: the links of the node, or the default for an id that
\* is stale or not in the tree
Lookup(a, t, id) == IF IsLive(a, id) /\ Present(t, id) THEN t[id] ELSE NoLinks

----------------------------------------------------------------------------
(* Tours: a tour visits every node twice, entering and leaving it *)

Position(node, direction) == [node |-> node, direction |-> direction]

NoPosition == Position(None, "None")

\* where a TourStep leads from a node
TourAdvance(t, node, step) ==
    LET to == CASE step = "EnterFirstChild" -> GetFirstChild(t, node)
                [] step = "EnterLastChild" -> GetLastChild(t, node)
                [] step = "EnterNextSibling" -> GetNextSibling(t, node)
                [] step = "EnterPrevSibling" -> GetPrevSibling(t, node)
    IN  IF to # None THEN Position(to, "Entering")
        ELSE IF step \in {"EnterFirstChild", "EnterLastChild"}
        THEN Position(node, "Leaving")
        ELSE IF GetParent(t, node) # None THEN Position(GetParent(t, node), "Leaving")
        ELSE NoPosition

\* DoubleEndedTreeTour::new_same(Some(root)): both tours are about to enter root
NewSame(root) ==
    [forward |-> Position(root, "Entering"), backward |-> Position(root, "Entering")]

\* mutant: a forward tour that yields a node when it leaves it
NextCallbackOnLeaving(node, direction) ==
    IF direction = "Entering"
    THEN [item |-> None, step |-> "EnterFirstChild"]
    ELSE [item |-> node, step |-> "EnterNextSibling"]

\* mutant: a forward tour that goes on to the next sibling of the node it enters
NextCallbackSkipsChildren(node, direction) ==
    IF direction = "Entering"
    THEN [item |-> node, step |-> "EnterNextSibling"]
    ELSE [item |-> None, step |-> "EnterNextSibling"]

\* the closure of TreeIterator::next
NextCallback(node, direction) ==
    IF direction = "Entering"
    THEN [item |-> node, step |-> "EnterFirstChild"]
    ELSE [item |-> None, step |-> "EnterNextSibling"]

\* mutant: a backward tour that yields a node when it enters it
NextBackCallbackOnEntering(node, direction) ==
    IF direction = "Entering"
    THEN [item |-> node, step |-> "EnterLastChild"]
    ELSE [item |-> None, step |-> "EnterPrevSibling"]

\* the closure of TreeIterator::next_back
NextBackCallback(node, direction) ==
    IF direction = "Entering"
    THEN [item |-> None, step |-> "EnterLastChild"]
    ELSE [item |-> node, step |-> "EnterPrevSibling"]

\* next_with / next_back_with: the tour of that end moves until its callback
\* yields an item; the two tours have met when the one that moves visits what
\* the other is about to visit from the other side, and both end there
RECURSIVE NextWith(_, _, _)
NextWith(t, tours, end) ==
    IF tours.forward = NoPosition \/ tours.backward = NoPosition
    THEN [item |-> None, tours |-> tours]
    ELSE LET cur == IF end = "next" THEN tours.forward ELSE tours.backward
             other == IF end = "next" THEN tours.backward ELSE tours.forward
             met == cur.node = other.node /\ cur.direction # other.direction
             r == IF end = "next" THEN NextCallback(cur.node, cur.direction)
                  ELSE NextBackCallback(cur.node, cur.direction)
             to == TourAdvance(t, cur.node, r.step)
             moved == IF met THEN [forward |-> NoPosition, backward |-> NoPosition]
                      ELSE IF end = "next" THEN [tours EXCEPT !.forward = to]
                      ELSE [tours EXCEPT !.backward = to]
         IN  IF r.item # None THEN [item |-> r.item, tours |-> moved]
             ELSE NextWith(t, moved, end)

----------------------------------------------------------------------------
(* The iterators of tree_iter.rs *)

IterIdle == [phase |-> "idle", start |-> None, tours |-> NewSame(None),
             front |-> <<>>, back |-> <<>>, front_done |-> FALSE, back_done |-> FALSE]

BfsIdle == [phase |-> "idle", start |-> None, queue |-> <<>>, out |-> <<>>]

\* mutant: every iterator tours the whole tree
TreeIteratorFull(root) ==
    /\ iter.phase = "idle" /\ bfs.phase = "idle"
    /\ iter' = [IterIdle EXCEPT !.phase = "dfs", !.start = root, !.tours = NewSame(RootId)]
    /\ UNCHANGED <<vars, tree, arena, issued, result, bfs>>

\* TreeIterator::subtree(tree, root)
TreeIteratorSubtree(root) ==
    /\ iter.phase = "idle" /\ bfs.phase = "idle"
    /\ iter' = [IterIdle EXCEPT !.phase = "dfs", !.start = root, !.tours = NewSame(root)]
    /\ UNCHANGED <<vars, tree, arena, issued, result, bfs>>

\* TreeIterator::next
TreeIteratorNext ==
    /\ iter.phase = "dfs" /\ ~iter.front_done
    /\ LET r == NextWith(tree, iter.tours, "next")
       IN  iter' = IF r.item = None
                   THEN [iter EXCEPT !.tours = r.tours, !.front_done = TRUE]
                   ELSE [iter EXCEPT !.tours = r.tours, !.front = Append(@, r.item)]
    /\ UNCHANGED <<vars, tree, arena, issued, result, bfs>>

\* TreeIterator::next_back
TreeIteratorNextBack ==
    /\ iter.phase = "dfs" /\ ~iter.back_done
    /\ LET r == NextWith(tree, iter.tours, "next_back")
       IN  iter' = IF r.item = None
                   THEN [iter EXCEPT !.tours = r.tours, !.back_done = TRUE]
                   ELSE [iter EXCEPT !.tours = r.tours, !.back = Append(@, r.item)]
    /\ UNCHANGED <<vars, tree, arena, issued, result, bfs>>

\* TreeBreadthIterator::subtree(tree, root)
TreeBreadthIteratorSubtree(root) ==
    /\ iter.phase = "idle" /\ bfs.phase = "idle"
    /\ bfs' = [BfsIdle EXCEPT !.phase = "bfs", !.start = root, !.queue = <<root>>]
    /\ UNCHANGED <<vars, tree, arena, issued, result, iter>>

\* mutant: the children are put at the front of the queue
TreeBreadthIteratorNextPushFront ==
    /\ bfs.phase = "bfs"
    /\ bfs' = IF bfs.queue = <<>> THEN [bfs EXCEPT !.phase = "done"]
              ELSE [bfs EXCEPT !.queue = ChildIterator(tree, Head(bfs.queue)) \o Tail(@),
                               !.out = Append(@, Head(bfs.queue))]
    /\ UNCHANGED <<vars, tree, arena, issued, result, iter>>

\* TreeBreadthIterator::next
TreeBreadthIteratorNext ==
    /\ bfs.phase = "bfs"
    /\ bfs' = IF bfs.queue = <<>> THEN [bfs EXCEPT !.phase = "done"]
              ELSE [bfs EXCEPT !.queue = Tail(@) \o ChildIterator(tree, Head(bfs.queue)),
                               !.out = Append(@, Head(bfs.queue))]
    /\ UNCHANGED <<vars, tree, arena, issued, result, iter>>

----------------------------------------------------------------------------
(* The operations on the Tree and on the id arena, as steps *)

\* Operations on the Tree and the arena explored from the empty tree
MaxOps == 8

\* result.ops counts the operations made so far
NoResult == [op |-> "none", id |-> None, parent |-> None, result |-> "none",
             before |-> TreeNew, known |-> {}, ops |-> 0]

Done(op, id, parent, res) ==
    [op |-> op, id |-> id, parent |-> parent, result |-> res,
     before |-> tree, known |-> issued, ops |-> result.ops + 1]

LiveIds == { id \in issued : IsLive(arena, id) }

\* a new id is allocated
IdCreate ==
    /\ result.ops < MaxOps
    /\ LET c == Create(arena)
       IN  /\ arena' = c.arena
           /\ issued' = issued \cup {c.id}
           /\ result' = Done("create", c.id, None, "Ok")
    /\ UNCHANGED <<vars, tree, iter, bfs>>

\* the owner of a node that is not in the tree gives its id back
IdDestroy(id) ==
    /\ result.ops < MaxOps
    /\ IsLive(arena, id) /\ ~Present(tree, id)
    /\ arena' = Destroy(arena, id)
    /\ result' = Done("destroy", id, None, "Ok")
    /\ UNCHANGED <<vars, tree, issued, iter, bfs>>

\* tree.add(id, parent)
TreeAdd(id, parent) ==
    /\ result.ops < MaxOps
    /\ LET r == Add(tree, id, parent)
       IN  /\ tree' = r.tree
           /\ result' = Done("add", id, parent, r.result)
    /\ UNCHANGED <<vars, arena, issued, iter, bfs>>

\* tree.remove(id)
TreeRemove(id) ==
    /\ result.ops < MaxOps
    /\ LET r == Remove(tree, id)
       IN  /\ tree' = r.tree
           /\ result' = Done("remove", id, None, r.result)
    /\ UNCHANGED <<vars, arena, issued, iter, bfs>>

\* z-orders written by the z_order modifier
ZOrders == {0, 5}

\* cx.tree.set_z_order(entity, value), from the z_order modifier of a view
TreeSetZOrder(id, value) ==
    /\ result.ops < MaxOps
    /\ tree' = SetZOrder(tree, id, value)
    /\ result' = Done("set_z_order", id, None, "Ok")
    /\ UNCHANGED <<vars, arena, issued, iter, bfs>>

----------------------------------------------------------------------------
(* Specifications *)

\* The hover model keeps the tree variables still, and the tree models the
\* variables of the hover pass
TreeIdle ==
    /\ tree = TreeNew /\ arena = ArenaNew /\ issued = {} /\ result = NoResult
    /\ iter = IterIdle /\ bfs = BfsIdle

HoverIdle ==
    InitWith(ChildrenOf(0, <<>>), DefaultStyle, [e \in {Root} |-> FullBox],
             BuiltPseudoClasses(0), FALSE, 0)

\* Nodes besides the root in the trees the iterators are run on
IterNodes == 5

RECURSIVE TreeUpTo(_, _)
TreeUpTo(p, k) ==
    IF k = 0 THEN TreeNew
    ELSE Add(TreeUpTo(p, k - 1), NodeId(k, 0), NodeId(p[k], 0)).tree

\* every tree of at most IterNodes nodes below the root, built with add
IterInit ==
    /\ \E n \in 0..IterNodes : \E p \in ParentVectors(n) :
          /\ tree = TreeUpTo(p, n)
          /\ arena = [generation |-> [i \in 1..n |-> 0], free_list |-> <<>>]
          /\ issued = { NodeId(i, 0) : i \in 1..n }
    /\ result = NoResult
    /\ iter = IterIdle
    /\ bfs = BfsIdle
    /\ HoverIdle

IterNext ==
    \/ \E s \in DOMAIN tree : TreeIteratorSubtree(s)
    \/ TreeIteratorNext
    \/ TreeIteratorNextBack
    \/ \E s \in DOMAIN tree : TreeBreadthIteratorSubtree(s)
    \/ TreeBreadthIteratorNext

IterSpec == IterInit /\ [][IterNext]_all_vars

TreeInit == TreeIdle /\ HoverIdle

TreeNext ==
    \/ IdCreate
    \/ \E id \in issued : IdDestroy(id)
    \/ \E id \in LiveIds : \E parent \in issued \cup {RootId} : TreeAdd(id, parent)
    \/ \E id \in issued : TreeRemove(id)
    \/ \E id \in DOMAIN tree : \E value \in ZOrders : TreeSetZOrder(id, value)

TreeSpec == TreeInit /\ [][TreeNext]_all_vars

Init ==
    /\ InitZ \/ InitPointerEvents \/ InitAbilities \/ InitGeometry \/ InitDeep
    /\ TreeIdle

Next ==
    \/ HoverSystem(Root)
    \/ \E pos \in CursorPositions : MouseMove(pos)

Spec == Init /\ [][Next]_all_vars

----------------------------------------------------------------------------
(* Vocabulary of the properties: the tree and the attributes as they are,  *)
(* read without the walk                                                   *)

RECURSIVE AncestorsOf(_)
AncestorsOf(e) ==
    IF LayoutParent(e) = NoEntity THEN {}
    ELSE {LayoutParent(e)} \cup AncestorsOf(LayoutParent(e))

IsDescendantOf(d, a) == a \in AncestorsOf(d)

SubtreeOf(e) == {e} \cup {d \in Entities : IsDescendantOf(d, e)}

\* the pointer-events policy in force on e: its own value, else the one of
\* the nearest ancestor that has a value, else the default (Auto)
RECURSIVE EffectivePointerEvents(_)
EffectivePointerEvents(e) ==
    IF e \in DOMAIN style.pointer_events THEN style.pointer_events[e] = "Auto"
    ELSE IF LayoutParent(e) = NoEntity THEN TRUE
    ELSE EffectivePointerEvents(LayoutParent(e))

\* e is skipped by the walk: non-hoverable abilities, or display none and no text-span
Skipped(e) ==
    \/ e \in DOMAIN style.abilities /\ HOVERABLE \notin style.abilities[e]
    \/ /\ e \in DOMAIN style.display /\ style.display[e] = "None"
       /\ ~(e \in DOMAIN style.text_span /\ style.text_span[e])

PassDone == last.outcome = "done"
PassLog == last.log
Steps == 1..Len(PassLog)
Tests == {k \in Steps : PassLog[k].op = "test"}
Matches == {k \in Tests : PassLog[k].matched}
MatchedEntities == {PassLog[k].entity : k \in Matches}
CursorWasNegative == last.mouse.cursor_x < 0 \/ last.mouse.cursor_y < 0
NewEvents == SubSeq(event_queue, last.prev_events + 1, Len(event_queue))
IsTransition(ev) == ev.kind \in {"MouseEnter", "MouseLeave", "MouseOver", "MouseOut"}
HoverMoved == PassDone /\ last.resolved # last.prev_hovered

\* the pointer position read by the last pass lies in box (half-open)
PointerIn(box) ==
    /\ last.mouse.cursor_x >= box.x /\ last.mouse.cursor_x < box.x + box.w
    /\ last.mouse.cursor_y >= box.y /\ last.mouse.cursor_y < box.y + box.h

\* the tree and attributes of the z-order scenario, with the pointer over B and C
Scenario(A, B, C) ==
    /\ children[Root] \in {<<A, B>>, <<B, A>>}
    /\ \E i \in 1..Len(children[A]) : children[A][i] = C
    /\ ZIndex(A) = 0 /\ ZIndex(B) = 5
    /\ \A e \in Entities \ SubtreeOf(B) : ZIndex(e) = 0
    /\ DOMAIN style.transform = {} /\ DOMAIN style.clip_region = {}
    /\ ~Skipped(Root) /\ ~Skipped(B) /\ EffectivePointerEvents(B)
    /\ PointerIn(cache[B]) /\ PointerIn(cache[C])

\* the point t lies in the box b, right and bottom edges excluded
HalfOpen(t, b) ==
    /\ b.x <= t.x /\ t.x < b.x + b.w
    /\ b.y <= t.y /\ t.y < b.y + b.h

\* e and f are distinct children of one parent
Siblings(e, f) ==
    /\ e # f
    /\ LayoutParent(e) # NoEntity
    /\ LayoutParent(e) = LayoutParent(f)

----------------------------------------------------------------------------
(* C1: a pass that resolves a hovered entity Y different from the stored   *)
(* one X appends exactly MouseEnter direct to Y, MouseLeave direct to X,   *)
(* MouseOver targeted at Y and MouseOut targeted at X, once each and in    *)
(* this order, marks X and Y for restyle and stores Y.                     *)
C1_TransitionEvents ==
    HoverMoved =>
        LET X == last.prev_hovered
            Y == last.resolved
        IN  /\ SelectSeq(NewEvents, IsTransition) =
                 << [kind |-> "MouseEnter", mode |-> "direct", target |-> Y, cursor |-> ""],
                    [kind |-> "MouseLeave", mode |-> "direct", target |-> X, cursor |-> ""],
                    [kind |-> "MouseOver", mode |-> "up", target |-> Y, cursor |-> ""],
                    [kind |-> "MouseOut", mode |-> "up", target |-> X, cursor |-> ""] >>
            /\ {X, Y} \subseteq restyle
            /\ hovered = Y

\* the hover moved between two entities that are not the window
C1_Witness ==
    /\ HoverMoved
    /\ last.prev_hovered # Root /\ last.resolved # Root
    /\ Len(NewEvents) >= 4

(* C2: a pass whose resolved entity equals the stored hovered entity emits *)
(* no event (no enter, leave, over, out, no cursor request) and leaves the *)
(* stored hovered entity unchanged.                                        *)
C2_NoEventWithoutChange ==
    (PassDone /\ last.resolved = last.prev_hovered) =>
        /\ Len(event_queue) = last.prev_events
        /\ hovered = last.prev_hovered

\* a second pass resolved the same non-window entity as the pass before it
C2_Witness ==
    /\ PassDone /\ last.resolved = last.prev_hovered
    /\ last.resolved # Root
    /\ last.prev_events > 0
    /\ ~last.locked

(* C3: root R with children A (z-index 0) and B (z-index 5), in either     *)
(* sibling order, and a child C of A; everything outside B's subtree keeps *)
(* the default z-index and no clip or transform is set.  When the pointer  *)
(* is inside the bounds of both B and C and B can be hit, the pass         *)
(* resolves to B or to a descendant of B, never to C or A.                 *)
C3_HigherSiblingWins ==
    PassDone =>
        \A A, B, C \in Entities :
            Scenario(A, B, C) =>
                /\ last.resolved \in SubtreeOf(B)
                /\ last.resolved \notin {A, C}

\* the scenario with B before A in sibling order, C matching after B was deferred
C3_Witness ==
    /\ PassDone
    /\ \E A, B, C \in Entities :
          /\ Scenario(A, B, C)
          /\ children[Root] = <<B, A>>
          /\ C \in MatchedEntities
          /\ last.resolved = B

(* C4 as stated: a node processed at a strictly higher z-index is          *)
(* hit-tested before every node processed at a lower z-index (higher       *)
(* z-index subtrees are resolved before lower ones).                       *)
C4_HigherResolvedFirst ==
    PassDone =>
        \A i, j \in Tests : PassLog[i].z > PassLog[j].z => i < j

(* C4 amended: within one pass the hit tests happen in non-decreasing      *)
(* order of the z-index of the work item they are processed under, so a    *)
(* node processed at a strictly higher z-index is hit-tested after every   *)
(* node processed at a lower one, and the resolved entity is one that      *)
(* matched at the highest z-index at which anything matched.               *)
C4_LowerResolvedFirst ==
    PassDone =>
        /\ \A i, j \in Tests : PassLog[i].z > PassLog[j].z => i > j
        /\ \A i \in Matches :
              \E k \in Matches : /\ PassLog[k].entity = last.resolved
                                 /\ PassLog[k].z >= PassLog[i].z

\* a match at z-index 0 was overridden by a later match at 5 and that by one at 7
C4_Witness ==
    /\ PassDone
    /\ \E i, j, k \in Matches :
          /\ PassLog[i].z = 0 /\ PassLog[j].z = 5 /\ PassLog[k].z = 7
          /\ PassLog[i].entity # Root
          /\ PassLog[k].entity = last.resolved

(* C5: when an entity and one of its descendants both match the pointer in *)
(* the same pass, the pass does not resolve to that ancestor, whatever the *)
(* z-indices of the two.                                                   *)
C5_DescendantPreferred ==
    PassDone =>
        \A a, d \in MatchedEntities :
            IsDescendantOf(d, a) => last.resolved # a

\* an ancestor below the window and a descendant with another z-index both matched
C5_Witness ==
    /\ PassDone
    /\ \E a, d \in MatchedEntities :
          /\ IsDescendantOf(d, a) /\ a # Root
          /\ ZIndex(a) # ZIndex(d)
          /\ last.resolved = d

(* C6 as stated: an entity whose effective pointer-events policy is None   *)
(* is never resolved as the hovered entity.                                *)
C6_NoneNeverHovered ==
    PassDone =>
        \A e \in Entities : ~EffectivePointerEvents(e) => last.resolved # e

(* C6 amended: an entity other than the window whose effective             *)
(* pointer-events policy is None is never resolved as the hovered entity   *)
(* (the window is what the pass falls back to when nothing matches); every *)
(* entity is hit-tested, and pushed on the queue, with its own explicit    *)
(* value or else the resolved value of its nearest ancestor that has one,  *)
(* also across a deferral through the queue; no hit test matches with the  *)
(* policy None.                                                            *)
C6_PointerEventsInherited ==
    PassDone =>
        /\ \A e \in Entities \ {last.window} :
              ~EffectivePointerEvents(e) => last.resolved # e
        /\ \A k \in Steps :
              PassLog[k].op \in {"test", "push", "pop", "outside"} =>
                  PassLog[k].pe = EffectivePointerEvents(PassLog[k].entity)
        /\ \A k \in Matches : PassLog[k].pe

\* under an entity with pointer-events None, a deferred descendant without a
\* value of its own did not match and a descendant with Auto became hovered
C6_Witness ==
    /\ PassDone
    /\ \E n, d, a \in Entities \ {Root} :
          /\ n \in DOMAIN style.pointer_events /\ style.pointer_events[n] = "None"
          /\ IsDescendantOf(d, n) /\ d \notin DOMAIN style.pointer_events
          /\ ZIndex(d) = 5
          /\ \E k \in Tests : PassLog[k].entity = d /\ ~PassLog[k].matched
          /\ IsDescendantOf(a, d)
          /\ a \in DOMAIN style.pointer_events /\ style.pointer_events[a] = "Auto"
          /\ last.resolved = a

(* C7: hit-testing is half-open: a hit test matches only if the mapped     *)
(* pointer satisfies left <= x < right and top <= y < bottom of the        *)
(* clipped bounds (and does match then when pointer events are enabled);   *)
(* two siblings hit-tested at the same mapped point, the clipped bounds of *)
(* one ending where those of the other begin, never both match, and a      *)
(* pointer on the shared edge matches the one whose left edge it is.       *)
C7_HalfOpenHitTest ==
    PassDone =>
        /\ \A k \in Tests :
              PassLog[k].matched <=> (PassLog[k].pe /\ HalfOpen(PassLog[k].t, PassLog[k].b))
        /\ \A i, j \in Tests :
              ( /\ Siblings(PassLog[i].entity, PassLog[j].entity)
                /\ PassLog[i].t = PassLog[j].t
                /\ PassLog[i].b.x + PassLog[i].b.w = PassLog[j].b.x )
              => /\ ~(PassLog[i].matched /\ PassLog[j].matched)
                 /\ (PassLog[i].t.x = PassLog[j].b.x => ~PassLog[i].matched)

\* siblings with bounds [0, 100) and [100, 200), pointer at x = 100: the right one matched
C7_Witness ==
    /\ PassDone
    /\ last.mouse.cursor_x = 100
    /\ \E i, j \in Tests :
          /\ Siblings(PassLog[i].entity, PassLog[j].entity)
          /\ PassLog[i].b = LeftBox /\ PassLog[j].b = RightBox
          /\ PassLog[i].t.x = 100 /\ PassLog[j].t.x = 100
          /\ ~PassLog[i].matched /\ PassLog[j].matched
          /\ last.resolved = PassLog[j].entity

(* C8: with a negative cursor x or y the walk is cut short: no hit test is *)
(* made, no entity other than the window is visited or pushed, and the     *)
(* pass resolves to the window entity it was called with.                  *)
C8_NegativeCursor ==
    (PassDone /\ CursorWasNegative) =>
        /\ Tests = {}
        /\ \A k \in Steps : PassLog[k].entity = last.window
        /\ last.resolved = last.window
        /\ hovered = last.window

\* a pass with a negative y only, in a tree whose window has children, after
\* a pass that had hovered one of them
C8_Witness ==
    /\ PassDone
    /\ last.mouse.cursor_y < 0 /\ last.mouse.cursor_x >= 0
    /\ children[Root] # <<>>
    /\ last.prev_hovered # Root
    /\ last.resolved = Root

(* C9: a pass that visits a node whose cumulative transform is             *)
(* non-invertible is not aborted: it completes and commits a hovered       *)
(* entity.                                                                 *)
C9_SingularTransformSurvived ==
    last.window # NoEntity => last.outcome \in {"done", "return"}

(* C10 as stated: an entity with an abilities entry lacking HOVERABLE, or  *)
(* with display none and no text-span, and all its descendants are neither *)
(* hit-tested, nor pushed, nor resolved as hovered.                        *)
C10_SkippedNeverHovered ==
    PassDone =>
        \A e \in Entities : \A d \in SubtreeOf(e) :
            Skipped(e) =>
                /\ \A k \in Steps :
                      PassLog[k].entity = d => PassLog[k].op \notin {"test", "push"}
                /\ last.resolved # d

(* C10 amended: such an entity and all its descendants are neither         *)
(* hit-tested nor pushed on the queue, and none of them other than the     *)
(* window (the fallback of a pass in which nothing matches) is resolved as *)
(* hovered; an entity without an abilities entry counts as hoverable and a *)
(* display-none entity marked text-span is visited: when the cursor is not *)
(* negative every entity with no skipped entity on its path from the       *)
(* window is hit-tested.                                                   *)
C10_SkippedSubtree ==
    PassDone =>
        /\ \A e \in Entities : \A d \in SubtreeOf(e) :
              Skipped(e) =>
                  /\ \A k \in Steps :
                        PassLog[k].entity = d => PassLog[k].op \notin {"test", "push"}
                  /\ d # last.window =>
                        /\ last.resolved # d
                        /\ \A k \in Steps : PassLog[k].entity = d =>
                               (d = e /\ PassLog[k].op = "skip")
        /\ ~CursorWasNegative =>
              \A e \in Entities :
                  (\A a \in {e} \cup AncestorsOf(e) : ~Skipped(a))
                      => \E k \in Tests : PassLog[k].entity = e

\* a non-hoverable entity with a child raised to z-index 5 was skipped, while a
\* display-none text-span entity was hit-tested
C10_Witness ==
    /\ PassDone /\ ~CursorWasNegative
    /\ \E e, d, t \in Entities \ {Root} :
          /\ e \in DOMAIN style.abilities /\ HOVERABLE \notin style.abilities[e]
          /\ IsDescendantOf(d, e) /\ ZIndex(d) = 5
          /\ \E k \in Steps : PassLog[k].entity = e /\ PassLog[k].op = "skip"
          /\ t \in DOMAIN style.text_span /\ t \in DOMAIN style.display
          /\ \E k \in Tests : PassLog[k].entity = t

(* C11: when a pass changes the hovered entity while the cursor icon is    *)
(* locked, no cursor request is emitted but the four transition events,    *)
(* the restyle marks and the update of the stored hovered entity happen;   *)
(* when it is not locked, exactly one cursor request is emitted, carrying  *)
(* the declared cursor of the new hovered entity, or the default.          *)
C11_CursorLock ==
    HoverMoved =>
        LET requests == SelectSeq(NewEvents, LAMBDA ev : ev.kind = "SetCursor")
            declared == IF last.resolved \in DOMAIN style.cursor
                        THEN style.cursor[last.resolved] ELSE "Default"
        IN  /\ Len(SelectSeq(NewEvents, IsTransition)) = 4
            /\ {last.prev_hovered, last.resolved} \subseteq restyle
            /\ hovered = last.resolved
            /\ IF last.locked
               THEN requests = <<>>
               ELSE Len(requests) = 1 /\ requests[1].cursor = declared

\* the hover moved to the entity that declares a cursor while the icon was locked
C11_Witness ==
    /\ HoverMoved
    /\ last.locked
    /\ last.resolved \in DOMAIN style.cursor
    /\ Len(NewEvents) = 4

(* C12: among work items of equal z-index the one pushed first is popped   *)
(* first.                                                                  *)
C12_TiesInInsertionOrder ==
    PassDone =>
        \A i, j \in Steps :
            ( /\ PassLog[i].op = "push" /\ PassLog[j].op = "push"
              /\ i < j /\ PassLog[i].z = PassLog[j].z )
            => \A m, n \in Steps :
                  ( /\ PassLog[m].op = "pop" /\ PassLog[m].entity = PassLog[i].entity
                    /\ PassLog[n].op = "pop" /\ PassLog[n].entity = PassLog[j].entity )
                  => m < n

----------------------------------------------------------------------------
(* Vocabulary of the tree properties *)

Reverse(seq) == [i \in 1..Len(seq) |-> seq[Len(seq) + 1 - i]]

IsPrefix(a, b) == Len(a) <= Len(b) /\ \A i \in 1..Len(a) : a[i] = b[i]

NoDuplicates(seq) == \A i, j \in 1..Len(seq) : seq[i] = seq[j] => i = j

\* what an iterator yields when only one of its ends is called, until None
RECURSIVE Drain(_, _, _)
Drain(t, tours, end) ==
    LET r == NextWith(t, tours, end)
    IN  IF r.item = None THEN <<>> ELSE <<r.item>> \o Drain(t, r.tours, end)

Forward(t, s) == Drain(t, NewSame(s), "next")

Backward(t, s) == Drain(t, NewSame(s), "next_back")

\* the subtree rooted at s
SubtreeNodes(t, s) == {s} \cup DescendantsOf(t, s)

\* depth-first pre-order, by its definition: a node, then the pre-order of
\* each of its children in sibling order
RECURSIVE PreOrder(_, _)
RECURSIVE PreOrderOfAll(_, _)
PreOrder(t, n) == <<n>> \o PreOrderOfAll(t, ChildIterator(t, n))
PreOrderOfAll(t, nodes) ==
    IF nodes = <<>> THEN <<>>
    ELSE PreOrder(t, Head(nodes)) \o PreOrderOfAll(t, Tail(nodes))

\* number of parent links from n up to s
RECURSIVE DepthBelow(_, _, _)
DepthBelow(t, s, n) == IF n = s \/ n = None THEN 0 ELSE 1 + DepthBelow(t, s, GetParent(t, n))

\* the tree of the tests of tree_iter.rs: r has the children a and b, a has
\* the children c and d, b has the child e
ExampleTree == TreeUpTo(<<0, 0, 1, 1, 2>>, 5)

IdOf == [r |-> RootId, a |-> NodeId(1, 0), b |-> NodeId(2, 0), c |-> NodeId(3, 0),
         d |-> NodeId(4, 0), e |-> NodeId(5, 0)]

\* what a breadth-first iterator with this queue yields until None
RECURSIVE BreadthDrain(_, _)
BreadthDrain(t, queue) ==
    IF queue = <<>> THEN <<>>
    ELSE <<Head(queue)>> \o BreadthDrain(t, Tail(queue) \o ChildIterator(t, Head(queue)))

\* every node a traversal that starts at the root yields, in any of the orders
YieldedFromRoot(t) ==
    Range(Forward(t, RootId)) \cup Range(Backward(t, RootId))
        \cup Range(BreadthDrain(t, <<RootId>>))

ForwardOnly == iter.phase = "dfs" /\ iter.back = <<>> /\ ~iter.back_done

BackwardOnly == iter.phase = "dfs" /\ iter.front = <<>> /\ ~iter.front_done

BothDone == iter.phase = "dfs" /\ iter.front_done /\ iter.back_done

(* C13: an iterator over the subtree of s drained with next_back only      *)
(* yields the reverse of what it yields drained with next only.            *)
C13_BackwardIsReverse ==
    /\ (ForwardOnly /\ iter.front_done)
          => Reverse(iter.front) = Backward(tree, iter.start)
    /\ (BackwardOnly /\ iter.back_done)
          => Reverse(iter.back) = Forward(tree, iter.start)

\* the subtree of a in the example tree was drained from the back alone
C13_Witness ==
    /\ tree = ExampleTree /\ iter.start = IdOf.a
    /\ BackwardOnly /\ iter.back_done
    /\ iter.back = <<IdOf.d, IdOf.c, IdOf.a>>

(* C14: however the calls of next and next_back are interleaved, once both *)
(* have returned None every node of the subtree has been yielded exactly   *)
(* once, and the front items followed by the reversed back items are the   *)
(* forward traversal.                                                      *)
C14_MeetInTheMiddle ==
    BothDone =>
        LET all == iter.front \o Reverse(iter.back)
        IN  /\ all = Forward(tree, iter.start)
            /\ NoDuplicates(all)
            /\ Range(all) = SubtreeNodes(tree, iter.start)
            /\ Len(all) = Cardinality(SubtreeNodes(tree, iter.start))

\* the two ends met inside the example tree, each having yielded two nodes or more
C14_Witness ==
    /\ tree = ExampleTree /\ iter.start = RootId
    /\ BothDone
    /\ Len(iter.front) >= 2 /\ Len(iter.back) >= 2

(* C15: the forward traversal is depth-first pre-order: what next has      *)
(* yielded so far is a prefix of the pre-order of the subtree, all of it   *)
(* once next returns None; on the example tree it is r, a, c, d, b, e.     *)
C15_ForwardIsPreOrder ==
    ForwardOnly =>
        /\ IsPrefix(iter.front, PreOrder(tree, iter.start))
        /\ iter.front_done => iter.front = PreOrder(tree, iter.start)
        /\ (iter.front_done /\ tree = ExampleTree /\ iter.start = RootId)
              => iter.front = <<IdOf.r, IdOf.a, IdOf.c, IdOf.d, IdOf.b, IdOf.e>>

\* the example tree was drained from the front
C15_Witness ==
    /\ tree = ExampleTree /\ iter.start = RootId
    /\ ForwardOnly /\ iter.front_done
    /\ Len(iter.front) = 6

(* C16: the breadth-first iterator yields the nodes in level order: no     *)
(* node is yielded before a node nearer to the start node, the children of *)
(* a node are yielded in sibling order, and every node of the subtree has  *)
(* been yielded when it ends; on the example tree the order is r, a, b, c, *)
(* d, e.                                                                   *)
C16_BreadthFirstLevelOrder ==
    bfs.phase # "idle" =>
        /\ \A i, j \in 1..Len(bfs.out) :
              i < j => DepthBelow(tree, bfs.start, bfs.out[i])
                          <= DepthBelow(tree, bfs.start, bfs.out[j])
        /\ \A i, j \in 1..Len(bfs.out) :
              ( /\ i < j
                /\ bfs.out[i] # bfs.start
                /\ GetParent(tree, bfs.out[i]) = GetParent(tree, bfs.out[j]) )
              => \E k \in 1..Len(ChildIterator(tree, GetParent(tree, bfs.out[i]))) :
                    \E m \in 1..Len(ChildIterator(tree, GetParent(tree, bfs.out[i]))) :
                       /\ k < m
                       /\ ChildIterator(tree, GetParent(tree, bfs.out[i]))[k] = bfs.out[i]
                       /\ ChildIterator(tree, GetParent(tree, bfs.out[i]))[m] = bfs.out[j]
        /\ NoDuplicates(bfs.out)
        /\ Range(bfs.out) \subseteq SubtreeNodes(tree, bfs.start)
        /\ bfs.phase = "done" => Range(bfs.out) = SubtreeNodes(tree, bfs.start)
        /\ (bfs.phase = "done" /\ tree = ExampleTree /\ bfs.start = RootId)
              => bfs.out = <<IdOf.r, IdOf.a, IdOf.b, IdOf.c, IdOf.d, IdOf.e>>

\* the example tree was drained breadth-first
C16_Witness ==
    /\ tree = ExampleTree /\ bfs.start = RootId
    /\ bfs.phase = "done"
    /\ Len(bfs.out) = 6

(* C17: an iterator over the subtree of s yields, from either end, only s  *)
(* and descendants of s, and all of them by the time both ends are done.   *)
C17_SubtreeOnly ==
    iter.phase = "dfs" =>
        /\ Range(iter.front) \cup Range(iter.back) \subseteq SubtreeNodes(tree, iter.start)
        /\ BothDone =>
              Range(iter.front) \cup Range(iter.back) = SubtreeNodes(tree, iter.start)

\* the subtree of a, which has the following sibling b, was drained from both ends
C17_Witness ==
    /\ tree = ExampleTree /\ iter.start = IdOf.a
    /\ BothDone
    /\ iter.front # <<>> /\ iter.back # <<>>

(* C18: once remove(id) has succeeded, no traversal that starts at the     *)
(* root yields id or a node that was a descendant of id, right after the   *)
(* removal and after any later operations, for as long as the node is not  *)
(* added again.                                                            *)
C18_RemovedNeverYielded ==
    /\ \A id \in issued : ~Present(tree, id) => id \notin YieldedFromRoot(tree)
    /\ (result.op = "remove" /\ result.result = "Ok")
          => SubtreeNodes(result.before, result.id) \cap YieldedFromRoot(tree) = {}

\* a node with a descendant was removed from between two siblings
C18_Witness ==
    /\ result.op = "remove" /\ result.result = "Ok"
    /\ DescendantsOf(result.before, result.id) # {}
    /\ Cardinality(DOMAIN tree) >= 2

(* C19: two ids of the same slot with different generations are never both *)
(* live; an id handed out by the arena is equal to no id it handed out     *)
(* before; a read through an id that is not live gives the default and the *)
(* id is not in the tree.                                                  *)
C19_GenerationalIds ==
    /\ \A x, y \in issued :
          (x.index = y.index /\ x.generation # y.generation)
             => ~(IsLive(arena, x) /\ IsLive(arena, y))
    /\ result.op = "create" => result.id \notin result.known
    /\ \A id \in issued :
          ~IsLive(arena, id) => Lookup(arena, tree, id) = NoLinks /\ ~Present(tree, id)

\* a slot was handed out again while the id of its earlier generation is known
C19_Witness ==
    /\ result.op = "create"
    /\ result.id.generation > 0
    /\ NodeId(result.id.index, 0) \in result.known

(* C20: add(id, parent) fails with AlreadyExists when id is in the tree    *)
(* and with ParentNotFound when parent is not, and the tree is as before;  *)
(* when it succeeds id is the last child of parent and nothing else has    *)
(* changed; remove(id) fails with NotFound when id is not in the tree, and *)
(* the tree is as before.                                                  *)
C20_StructuralErrors ==
    /\ result.op = "add" =>
          LET has_id == Present(result.before, result.id)
              has_parent == Present(result.before, result.parent)
          IN  /\ (has_id /\ has_parent) => result.result = "AlreadyExists"
              /\ (~has_id /\ ~has_parent) => result.result = "ParentNotFound"
              /\ (has_id \/ ~has_parent)
                    => /\ result.result \in {"AlreadyExists", "ParentNotFound"}
                       /\ tree = result.before
              /\ (~has_id /\ has_parent)
                    => /\ result.result = "Ok"
                       /\ DOMAIN tree = DOMAIN result.before \cup {result.id}
                       /\ GetParent(tree, result.id) = result.parent
                       /\ ChildIterator(tree, result.parent)
                             = Append(ChildIterator(result.before, result.parent), result.id)
                       /\ \A n \in DOMAIN result.before \ {result.parent} :
                             /\ ChildIterator(tree, n) = ChildIterator(result.before, n)
                             /\ GetParent(tree, n) = GetParent(result.before, n)
    /\ result.op = "remove" =>
          IF Present(result.before, result.id)
          THEN result.result = "Ok"
          ELSE result.result = "NotFound" /\ tree = result.before

\* add was refused for a node that is in the tree under another parent
C20_Witness ==
    /\ result.op = "add" /\ result.result = "AlreadyExists"
    /\ Present(tree, result.parent)
    /\ GetParent(tree, result.id) # result.parent
    /\ result.parent # result.id

\* the children of a node read backwards: prev_sibling from the last child
RECURSIVE ChainBack(_, _)
ChainBack(t, id) ==
    IF id = None THEN <<>> ELSE <<id>> \o ChainBack(t, GetPrevSibling(t, id))

\* the nodes met going up the parent links from a node, itself not included
RECURSIVE Ancestors(_, _)
Ancestors(t, id) ==
    IF GetParent(t, id) = None THEN {}
    ELSE {GetParent(t, id)} \cup Ancestors(t, GetParent(t, id))

(* C21: after every sequence of add, remove and set_z_order operations,    *)
(* failed ones included, the root is in the tree and has no parent, the    *)
(* children of every node read forwards through next_sibling and backwards *)
(* through prev_sibling are the same nodes in opposite order and have that *)
(* node as parent, no node is its own ancestor, and every node of the tree *)
(* is reachable from the root; set_z_order leaves every link as it was.    *)
C21_TreeInvariants ==
    /\ Present(tree, RootId) /\ GetParent(tree, RootId) = None
    /\ \A p \in DOMAIN tree :
          /\ GetPrevSibling(tree, GetFirstChild(tree, p)) = None
          /\ ChainBack(tree, GetLastChild(tree, p)) = Reverse(ChildIterator(tree, p))
          /\ NoDuplicates(ChildIterator(tree, p))
          /\ \A i \in 1..Len(ChildIterator(tree, p)) :
                /\ Present(tree, ChildIterator(tree, p)[i])
                /\ GetParent(tree, ChildIterator(tree, p)[i]) = p
    /\ \A n \in DOMAIN tree : n \notin Ancestors(tree, n)
    /\ DOMAIN tree = SubtreeNodes(tree, RootId)
    /\ result.op = "set_z_order" =>
          /\ DOMAIN tree = DOMAIN result.before
          /\ \A n \in DOMAIN tree :
                [tree[n] EXCEPT !.z_order = 0] = [result.before[n] EXCEPT !.z_order = 0]

\* the z-order of a node with a sibling was raised
C21_Witness ==
    /\ result.op = "set_z_order"
    /\ tree[result.id].z_order = 5
    /\ result.before[result.id].z_order = 0
    /\ GetParent(tree, result.id) # None
    /\ Len(ChildIterator(tree, GetParent(tree, result.id))) >= 2

\* the z-index of the work item being processed at step k of the pass: the
\* one of the latest pop before k
ContextZ(k) ==
    LET pops == {m \in 1..k : PassLog[m].op = "pop"}
    IN  PassLog[CHOOSE m \in pops : \A n \in pops : n <= m].z

(* C22: in a pass the work items are popped in non-decreasing z-index      *)
(* order; a node whose z-index is above the z-index of the work item being *)
(* processed is not hit-tested in that context: it is pushed with its own  *)
(* z-index and its resolved pointer-events value, neither it nor any node  *)
(* of its subtree is hit-tested before it is popped, and it is popped as   *)
(* pushed.                                                                 *)
C22_DeferredUntilPopped ==
    PassDone =>
        /\ \A i, j \in Steps :
              (i < j /\ PassLog[i].op = "pop" /\ PassLog[j].op = "pop")
                 => PassLog[i].z <= PassLog[j].z
        /\ \A k \in Tests :
              /\ PassLog[k].z = ContextZ(k)
              /\ ZIndex(PassLog[k].entity) <= ContextZ(k)
        /\ \A k \in Steps : PassLog[k].op = "push" =>
              /\ PassLog[k].z = ZIndex(PassLog[k].entity)
              /\ PassLog[k].z > ContextZ(k)
              /\ PassLog[k].pe = EffectivePointerEvents(PassLog[k].entity)
              /\ \E m \in Steps :
                    /\ m > k
                    /\ PassLog[m].op = "pop"
                    /\ PassLog[m].entity = PassLog[k].entity
                    /\ PassLog[m].z = PassLog[k].z
                    /\ PassLog[m].pe = PassLog[k].pe
                    /\ \A n \in Tests :
                          PassLog[n].entity \in SubtreeOf(PassLog[k].entity) => n > m

\* a node with a child was deferred and both were hit-tested once it was popped
C22_Witness ==
    /\ PassDone
    /\ \E k \in Steps : \E n, c \in Tests :
          /\ PassLog[k].op = "push"
          /\ PassLog[n].entity = PassLog[k].entity
          /\ IsDescendantOf(PassLog[c].entity, PassLog[k].entity)
          /\ PassLog[c].matched

\* the transform of e composed with the transforms of all its ancestors, and
\* the clip region of e intersected with the clip regions of all its ancestors
RECURSIVE CumulativeTransform(_)
CumulativeTransform(e) ==
    IF LayoutParent(e) = NoEntity THEN Concat(OwnTransform(e), Identity)
    ELSE Concat(OwnTransform(e), CumulativeTransform(LayoutParent(e)))

RECURSIVE CumulativeClip(_)
CumulativeClip(e) ==
    IF LayoutParent(e) = NoEntity THEN Intersection(InitialClip, ClipRegion(e))
    ELSE Intersection(CumulativeClip(LayoutParent(e)), ClipRegion(e))

(* C23: every node that is hit-tested, a node deferred through the queue   *)
(* included, is tested with the pointer mapped through the inverse of the  *)
(* transforms of its ancestors composed with its own, against its bounds   *)
(* intersected with the clip regions of all its ancestors and its own.     *)
C23_CumulativeGeometry ==
    PassDone =>
        \A k \in Tests :
            LET e == PassLog[k].entity
            IN  /\ PassLog[k].b = Intersection(Bounds(e), CumulativeClip(e))
                /\ Invertible(CumulativeTransform(e))
                      => PassLog[k].t = MapPoint(Invert(CumulativeTransform(e)),
                                                 last.mouse.cursor_x, last.mouse.cursor_y)

\* the entities the pass hit-tested
TestedEntities == {PassLog[k].entity : k \in Tests}

\* the resolved entity of the pass and its layout ancestors
WinningChain == Range(LayoutParentIterator(last.resolved))

(* C24: after a pass a node that was visited (hit-tested) carries the      *)
(* 'over' flag if and only if it matched the pointer in this pass.         *)
C24_OverIffMatched ==
    PassDone =>
        \A e \in TestedEntities :
            Contains(pseudo_classes, e, OVER) <=> e \in MatchedEntities

(* C25: after a pass every node on the layout-parent chain of the resolved *)
(* node that carries 'over' carries 'hover', and a node of the chain that  *)
(* does not carry 'over' has not been given 'hover' by the pass.           *)
C25_HoverOnOverChain ==
    PassDone =>
        \A a \in WinningChain :
            /\ Contains(pseudo_classes, a, OVER) => Contains(pseudo_classes, a, HOVER)
            /\ (~Contains(pseudo_classes, a, OVER) /\ Contains(pseudo_classes, a, HOVER))
                  => /\ Contains(last.prev_pseudo, a, HOVER)
                     /\ a \notin TestedEntities

\* the resolved node and the window got 'hover'; the node between them did
\* not match, carries no 'over' and got no 'hover'
C25_Witness ==
    /\ PassDone
    /\ last.resolved # Root
    /\ Contains(pseudo_classes, last.resolved, HOVER)
    /\ ~Contains(last.prev_pseudo, last.resolved, HOVER)
    /\ Contains(pseudo_classes, Root, HOVER)
    /\ \E a \in WinningChain :
          /\ a \in TestedEntities
          /\ ~Contains(pseudo_classes, a, OVER)
          /\ ~Contains(pseudo_classes, a, HOVER)

\* the entries of the pass log with this operation
StepsOf(op) == {k \in Steps : PassLog[k].op = op}

(* C26: a pass runs to completion: it ends with every pushed work item     *)
(* popped again (the queue is empty), and in one pass every node is pushed *)
(* at most once and hit-tested at most once.                               *)
C26_PassCompletes ==
    (last.window # NoEntity /\ last.outcome # "return") =>
        /\ last.outcome = "done"
        /\ Cardinality(StepsOf("pop")) = Cardinality(StepsOf("push")) + 1
        /\ \A i, j \in StepsOf("push") : PassLog[i].entity = PassLog[j].entity => i = j
        /\ \A i, j \in Tests : PassLog[i].entity = PassLog[j].entity => i = j

\* the events of a kind, in the order they were emitted
EventsOf(kind) == SelectSeq(event_queue, LAMBDA ev : ev.kind = kind)

\* the targets of the leaving events are those of the entering events one
\* transition earlier, the root before the first transition
Paired(entering, leaving) ==
    /\ Len(entering) = Len(leaving)
    /\ \A i \in 1..Len(leaving) :
          leaving[i].target = IF i = 1 THEN Root ELSE entering[i - 1].target

(* C27: over any sequence of passes that starts with the root as stored    *)
(* hovered entity, every MouseLeave (MouseOut) has the target of the       *)
(* MouseEnter (MouseOver) of the transition before it, or the root for the *)
(* first transition; the stored hovered entity is the target of the last   *)
(* MouseEnter, or the root; no two consecutive MouseEnter events have the  *)
(* same target.                                                            *)
C27_EnterLeavePairing ==
    LET enters == EventsOf("MouseEnter")
    IN  /\ Paired(enters, EventsOf("MouseLeave"))
        /\ Paired(EventsOf("MouseOver"), EventsOf("MouseOut"))
        /\ hovered = IF enters = <<>> THEN Root ELSE enters[Len(enters)].target
        /\ \A i \in 1..(Len(enters) - 1) : enters[i].target # enters[i + 1].target

\* two transitions: the hover moved from the root to an entity and on to another
C27_Witness ==
    /\ Len(EventsOf("MouseEnter")) = 2
    /\ Len(EventsOf("MouseLeave")) = 2
    /\ EventsOf("MouseLeave")[2].target # Root
    /\ EventsOf("MouseEnter")[2].target # Root

(* C28: a pass started while the window has a pseudo-class entry without   *)
(* the 'over' flag returns at once: the stored hovered entity, the event   *)
(* queue, every pseudo-class flag and the restyle marks are as before.     *)
C28_WindowNotOverNoOp ==
    ( /\ last.window # NoEntity
      /\ Has(last.prev_pseudo, last.window)
      /\ OVER \notin last.prev_pseudo[last.window] )
    => /\ last.outcome = "return"
       /\ hovered = last.prev_hovered
       /\ Len(event_queue) = last.prev_events
       /\ pseudo_classes = last.prev_pseudo
       /\ restyle = last.prev_restyle

\* the pass returned although the pointer was inside an entity that is not
\* the stored hovered one
C28_Witness ==
    /\ last.outcome = "return"
    /\ \E e \in Entities \ {Root} :
          /\ e # hovered
          /\ PointerIn(cache[e])
          /\ ~Contains(pseudo_classes, e, OVER)

(* C29: the entity a pass resolves is the window entity or an entity that  *)
(* matched in that pass (not skipped, pointer-events enabled, pointer in   *)
(* its clipped bounds); when nothing matched it is the window entity.      *)
C29_ResolvedIsWindowOrMatch ==
    PassDone =>
        /\ last.resolved = last.window \/ last.resolved \in MatchedEntities
        /\ MatchedEntities = {} => last.resolved = last.window
        /\ \A k \in Matches :
              /\ ~Skipped(PassLog[k].entity)
              /\ PassLog[k].pe
              /\ HalfOpen(PassLog[k].t, PassLog[k].b)

\* the window and others were hit-tested, nothing matched, and the pass
\* resolved to the window
C29_Witness ==
    /\ PassDone
    /\ Cardinality(Tests) >= 2
    /\ Root \in TestedEntities
    /\ Matches = {}
    /\ last.resolved = last.window

(* C30: after completed passes every entity that carries the 'hover' flag  *)
(* is the stored hovered entity or one of its layout ancestors.            *)
C30_HoverOnlyOnChain ==
    PassDone =>
        \A e \in Entities :
            Contains(pseudo_classes, e, HOVER)
               => e \in Range(LayoutParentIterator(hovered))

====
